---- MODULE Spec2Model ----
(***************************************************************************)
(* Sorted maps of rs_bt_bst: the unbalanced search tree (RawST), AVL,      *)
(* red-black (RB), Splay and Treap, over one heap of binary nodes with     *)
(* left / right / paren links.                                             *)
(*                                                                         *)
(* A tree value t is the record of the heap: t.root and, per node address, *)
(* t.left, t.right, t.paren, t.key, t.value and the variant's extra field  *)
(* (t.height for AVL, t.color for RB, t.weight for Treap).  Addresses are  *)
(* opaque in the program; here the node created for key k lives at address *)
(* k, and Nil = 0 is the null pointer.                                     *)
(*                                                                         *)
(* src/src/bst/mod.rs (traits BST and BSTNode: rotate, double_rotate,      *)
(* basic_insert, basic_remove, successor_bst, dir, sibling, swap_with ...) *)
(* is not part of the sources at hand; those operators are written from    *)
(* the design document and from their call sites in avl.rs, rb.rs,         *)
(* splay.rs and treap.rs.                                                  *)
(***************************************************************************)
EXTENDS Integers, Sequences, FiniteSets, TLC

\* ------------------------------------------------------------------ bounds
MaxKey == 6
MaxWeight == 2
\* most nodes a RawST / Splay tree holds in the model
MaxPlain == 4
\* most nodes a Treap holds in the model
MaxTreap == 3
\* most pairs of a generated batch
MaxElems == 3
\* most nodes of a tree handed to self_validate as it is
MaxShape == 4

Keys == 1..MaxKey
\* payloads are opaque to the trees: an old one and a new one
Values == {1, 2}
Weights == 1..MaxWeight
\* the priorities pushed on a heap: one more, so that three entries can carry
\* pairwise distinct weights
HeapWeights == 1..(MaxWeight + 1)
Addr == Keys
Nil == 0
Variants == {"raw", "avl", "rb", "splay", "treap", "heap"}

\* Either<(), ()> of src/src/aux.rs
Dirs == {"L", "R"}
reverse(d) == IF d = "L" THEN "R" ELSE "L"

\* Color of rb.rs
RED == "RED"
BLACK == "BLACK"

\* results of the public operations
Bool(b) == <<"bool", IF b THEN 1 ELSE 0>>
Some(v) == <<"some", v>>
NoneV == <<"none", 0>>
Unit == <<"unit", 0>>

\* variant: which tree this instance is; root .. weight: the heap; fault: a
\* contract violation was hit; op, ret: the public operation that has just
\* returned and its result ("new": the instance was just built, "idle": the
\* caller has taken the result)
VARIABLES variant, root, left, right, paren, key, value, height, color, weight,
          fault, op, ret, elems

vars == <<variant, root, left, right, paren, key, value, height, color, weight,
          fault, op, ret, elems>>

\* the heap as one value.  rots, drots and steps are not state of the program:
\* within one call they count the rotate calls, the double_rotate calls and
\* the rounds of the rebalancing loops / fix-up recursions; every call starts
\* from 0.
Tree ==
  [root |-> root, left |-> left, right |-> right, paren |-> paren, key |-> key,
   value |-> value, height |-> height, color |-> color, weight |-> weight,
   fault |-> fault, rots |-> 0, drots |-> 0, steps |-> 0]

EmptyTree ==
  [root |-> Nil,
   left |-> [a \in Addr |-> Nil], right |-> [a \in Addr |-> Nil],
   paren |-> [a \in Addr |-> Nil], key |-> [a \in Addr |-> 0],
   value |-> [a \in Addr |-> 0], height |-> [a \in Addr |-> 0],
   color |-> [a \in Addr |-> BLACK], weight |-> [a \in Addr |-> 0],
   fault |-> FALSE, rots |-> 0, drots |-> 0, steps |-> 0]

\* a contract violation (null dereference, unreachable!()) was hit
Fault(t) == [t EXCEPT !.fault = TRUE]

\* ------------------------------------------------------- node construction
\* RawSTNode::new / SplayNode::new / AVLNode::new / RBNode::new / TreapNode::new
\* height 0, colour RED; w is the Treap weight (0 elsewhere)
NodeNew(t, k, v, w) ==
  [t EXCEPT !.left[k] = Nil, !.right[k] = Nil, !.paren[k] = Nil, !.key[k] = k,
            !.value[k] = v, !.height[k] = 0, !.color[k] = RED, !.weight[k] = w]

\* Box::from_raw(node): the node's memory is released
NodeFree(t, n) ==
  [t EXCEPT !.left[n] = Nil, !.right[n] = Nil, !.paren[n] = Nil, !.key[n] = 0,
            !.value[n] = 0, !.height[n] = 0, !.color[n] = BLACK, !.weight[n] = 0]

\* ------------------------------------------------------------ BTNode / BT
\* BTNode::child(idx) of the binary nodes: 0 is left, anything else right
child(t, n, idx) == IF idx = 0 THEN t.left[n] ELSE t.right[n]

assign_child(t, n, c, idx) ==
  IF idx = 0 THEN [t EXCEPT !.left[n] = c]
  ELSE IF idx = 1 THEN [t EXCEPT !.right[n] = c]
  ELSE Fault(t)

assign_paren(t, n, p) == [t EXCEPT !.paren[n] = p]

\* BTNode::connect_child: the child's paren first, then the child slot
connect_child(t, n, c, idx) ==
  assign_child(IF c # Nil THEN assign_paren(t, c, n) ELSE t, n, c, idx)

\* BTNode::index_of_child: the first slot holding the child; 2 stands for
\* unreachable!()
index_of_child(t, n, c) ==
  IF t.left[n] = c THEN 0 ELSE IF t.right[n] = c THEN 1 ELSE 2

is_leaf(t, n) == t.left[n] = Nil /\ t.right[n] = Nil

node_contains(t, n, k) == t.key[n] = k

\* a faulty subtree_shift: the root is reassigned only to a node
subtree_shift_to_node_only(t, u, v) ==
  LET u_paren == t.paren[u]
      t1 == IF u_paren = Nil
            THEN (IF v = Nil THEN t ELSE [t EXCEPT !.root = v])
            ELSE assign_child(t, u_paren, v, index_of_child(t, u_paren, u))
  IN IF v # Nil THEN assign_paren(t1, v, u_paren) ELSE t1

\* BT::subtree_shift (transplant)
subtree_shift(t, u, v) ==
  LET u_paren == t.paren[u]
      t1 == IF u_paren = Nil THEN [t EXCEPT !.root = v]
            ELSE assign_child(t, u_paren, v, index_of_child(t, u_paren, u))
  IN IF v # Nil THEN assign_paren(t1, v, u_paren) ELSE t1

\* BT::reset_root
reset_root(t, r) ==
  [(IF r # Nil THEN assign_paren(t, r, Nil) ELSE t) EXCEPT !.root = r]

\* a faulty descent: it takes the child on the wrong side of the key
RECURSIVE search_mirrored(_, _, _)
search_mirrored(t, x, k) ==
  IF node_contains(t, x, k) \/ is_leaf(t, x) THEN x
  ELSE LET nxt == IF k < t.key[x] THEN child(t, x, 1) ELSE child(t, x, 0)
       IN IF nxt = Nil THEN x ELSE search_mirrored(t, nxt, k)

\* BTNode::search_approximately: descend from x; the node holding the key,
\* else the last node visited
RECURSIVE search_from(_, _, _)
search_from(t, x, k) ==
  IF node_contains(t, x, k) \/ is_leaf(t, x) THEN x
  ELSE LET nxt == IF k < t.key[x] THEN child(t, x, 0) ELSE child(t, x, 1)
       IN IF nxt = Nil THEN x ELSE search_from(t, nxt, k)

\* BT::search_approximately
search_approximately(t, k) ==
  IF t.root # Nil THEN search_from(t, t.root, k) ELSE t.root

\* BTNode::find_pos_of_key on a binary node: Some(0) or None
find_pos_of_key(t, n, k) == t.key[n] = k

\* a faulty lookup: it looks at the root and never descends
lookup_at_root(t, k) ==
  IF t.root = Nil THEN NoneV
  ELSE IF find_pos_of_key(t, t.root, k) THEN Some(t.value[t.root]) ELSE NoneV

\* BT::basic_lookup / basic_lookup_mut
basic_lookup(t, k) ==
  LET res == search_approximately(t, k)
  IN IF res = Nil THEN NoneV
     ELSE IF find_pos_of_key(t, res, k) THEN Some(t.value[res]) ELSE NoneV

\* a faulty modify: a found key makes it overwrite the value at the root
modify_at_root(t, k, v) ==
  LET app_node == search_approximately(t, k)
  IN IF app_node = Nil THEN [t |-> t, ret |-> Bool(FALSE)]
     ELSE IF find_pos_of_key(t, app_node, k)
          THEN [t |-> [t EXCEPT !.value[t.root] = v], ret |-> Bool(TRUE)]
          ELSE [t |-> t, ret |-> Bool(FALSE)]

\* BT::basic_modify
basic_modify(t, k, v) ==
  LET app_node == search_approximately(t, k)
  IN IF app_node = Nil THEN [t |-> t, ret |-> Bool(FALSE)]
     ELSE IF find_pos_of_key(t, app_node, k)
          THEN [t |-> [t EXCEPT !.value[app_node] = v], ret |-> Bool(TRUE)]
          ELSE [t |-> t, ret |-> Bool(FALSE)]

\* BTNode::minimum
RECURSIVE minimum(_, _)
minimum(t, x) == IF t.left[x] # Nil THEN minimum(t, t.left[x]) ELSE x

\* BTNode::maximum
RECURSIVE maximum(_, _)
maximum(t, x) == IF t.right[x] # Nil THEN maximum(t, t.right[x]) ELSE x

\* --------------------------------------------------------- BSTNode / BST
\* BSTNode::child / child_bst by direction
child_bst(t, n, d) == IF d = "L" THEN t.left[n] ELSE t.right[n]

\* BSTNode::connect_left / connect_right / conn_child by direction
conn_child(t, n, c, d) == connect_child(t, n, c, IF d = "L" THEN 0 ELSE 1)

\* BSTNode::dir: the slot of the parent that holds n (n is no root)
dir(t, n) == IF t.left[t.paren[n]] = n THEN "L" ELSE "R"

\* BSTNode::sibling: the other child of the parent
sibling(t, n) == child_bst(t, t.paren[n], reverse(dir(t, n)))

\* BSTNode::left_height / right_height / child_height: the child's height(),
\* -1 for a null child (AVL: the stored field)
child_height(t, n, d) ==
  IF child_bst(t, n, d) = Nil THEN -1 ELSE t.height[child_bst(t, n, d)]

left_height(t, n) == child_height(t, n, "L")
right_height(t, n) == child_height(t, n, "R")

max(a, b) == IF a >= b THEN a ELSE b

\* BSTNode::successor_bst: minimum of the right subtree, else the first
\* ancestor reached from a left child
RECURSIVE ascend_from(_, _, _)
ascend_from(t, x, d) ==
  LET y == t.paren[x]
  IN IF y # Nil /\ x = child_bst(t, y, d) THEN ascend_from(t, y, d) ELSE y

successor_bst(t, x) ==
  IF t.right[x] # Nil THEN minimum(t, t.right[x]) ELSE ascend_from(t, x, "R")

\* BSTNode::precessor_bst: maximum of the left subtree, else the first
\* ancestor reached from a right child
precessor_bst(t, x) ==
  IF t.left[x] # Nil THEN maximum(t, t.left[x]) ELSE ascend_from(t, x, "L")

\* BSTNode::swap_with: the two nodes exchange their key and value boxes
swap_with(t, n, m) ==
  [t EXCEPT !.key[n] = t.key[m], !.key[m] = t.key[n],
            !.value[n] = t.value[m], !.value[m] = t.value[n]]

\* a faulty rotate_cleanup: z's height is refreshed before x's
avl_cleanup_z_first(t, x, z) ==
  LET t1 == [t EXCEPT !.height[z] = 1 + max(left_height(t, z), right_height(t, z))]
  IN [t1 EXCEPT !.height[x] = 1 + max(left_height(t1, x), right_height(t1, x))]

\* AVL::rotate_cleanup: the stored heights of x, then of z
avl_rotate_cleanup(t, x, z) ==
  LET t1 == [t EXCEPT !.height[x] = 1 + max(left_height(t, x), right_height(t, x))]
  IN [t1 EXCEPT !.height[z] = 1 + max(left_height(t1, z), right_height(t1, z))]

\* BST::rotate_cleanup per variant (a no-op but for AVL)
rotate_cleanup(vt, t, x, z) ==
  IF vt = "avl" THEN avl_rotate_cleanup(t, x, z) ELSE t

\* BST::rotate(x, d): x's child z on the side opposite to d takes x's place,
\* x becomes z's d child and z's former d child becomes x's child in z's
\* stead; the new subtree root is z
rotate(vt, t, x, d) ==
  LET z == child_bst(t, x, reverse(d))
  IN IF z = Nil THEN Fault(t)
     ELSE LET t23 == child_bst(t, z, d)
              t1 == subtree_shift(t, x, z)
              t2 == conn_child(t1, z, x, d)
              t3 == conn_child(t2, x, t23, reverse(d))
          IN rotate_cleanup(vt, [t3 EXCEPT !.rots = @ + 1], x, z)

\* BST::double_rotate(x, d): rotate x's child on the side opposite to d away
\* from d, then rotate x towards d; the new subtree root is the grandchild
double_rotate(vt, t, x, d) ==
  LET z == child_bst(t, x, reverse(d))
  IN IF z = Nil THEN Fault(t)
     ELSE LET t1 == rotate(vt, [t EXCEPT !.drots = @ + 1], z, reverse(d))
          IN IF t1.fault THEN t1 ELSE rotate(vt, t1, x, d)

\* BST::basic_insert: hook the new node under the approximate node.  A
\* duplicate leaves the tree alone (the node made for it is never linked).
basic_insert(t, k, v, w) ==
  LET approxi_node == search_approximately(t, k)
  IN IF approxi_node # Nil /\ t.key[approxi_node] = k
     THEN [t |-> t, ret |-> FALSE]
     ELSE LET t1 == NodeNew(t, k, v, w)
              new_node == k
          IN [t |-> IF approxi_node = Nil
                    THEN [assign_paren(t1, new_node, approxi_node)
                            EXCEPT !.root = new_node]
                    ELSE IF k < t1.key[approxi_node]
                         THEN conn_child(t1, approxi_node, new_node, "L")
                         ELSE conn_child(t1, approxi_node, new_node, "R"),
              ret |-> TRUE]

\* the unlinking shared by BST::basic_remove, AVL::remove and Splay::remove:
\* z leaves the tree, its successor y (when z has both children) takes its
\* place
unlink(t, z) ==
  IF t.left[z] = Nil THEN subtree_shift(t, z, t.right[z])
  ELSE IF t.right[z] = Nil THEN subtree_shift(t, z, t.left[z])
  ELSE LET y == successor_bst(t, z)
           t1 == IF t.paren[y] # z
                 THEN LET s1 == subtree_shift(t, y, t.right[y])
                          s2 == [s1 EXCEPT !.right[y] = s1.right[z]]
                      IN assign_paren(s2, s2.right[y], y)
                 ELSE t
           t2 == subtree_shift(t1, z, y)
           t3 == [t2 EXCEPT !.left[y] = t2.left[z]]
       IN assign_paren(t3, t3.left[y], y)

\* BST::basic_remove: the unlinked node, or Nil
basic_remove(t, k) ==
  LET z == search_approximately(t, k)
  IN IF z = Nil \/ t.key[z] # k THEN [t |-> t, n |-> Nil]
     ELSE [t |-> unlink(t, z), n |-> z]

\* ------------------------------------------------------------------ RawST
\* RawST::insert
raw_insert(t, k, v) ==
  LET r == basic_insert(t, k, v, 0) IN [t |-> r.t, ret |-> Bool(r.ret)]

\* RawST::remove: the unlinked node is freed, its value returned
raw_remove(t, k) ==
  LET r == basic_remove(t, k)
  IN IF r.n = Nil THEN [t |-> r.t, ret |-> NoneV]
     ELSE [t |-> NodeFree(r.t, r.n), ret |-> Some(r.t.value[r.n])]

\* -------------------------------------------------------------------- AVL
\* AVLNode::bf on the stored heights
bf(t, n) == right_height(t, n) - left_height(t, n)

abs(i) == IF i < 0 THEN -i ELSE i

\* a faulty retrace: the heights are refreshed on the way up, nothing rotates
RECURSIVE avl_retrace_heights_only(_, _)
avl_retrace_heights_only(t, p) ==
  IF p = Nil THEN t
  ELSE avl_retrace_heights_only(
         [t EXCEPT !.height[p] = 1 + max(left_height(t, p), right_height(t, p))],
         t.paren[p])

\* a faulty retrace: the rotation goes towards the heavy side, which lifts
\* the child on the light side
RECURSIVE avl_retrace_wrong_way(_, _)
avl_retrace_wrong_way(t, p) ==
  IF p = Nil \/ t.fault THEN t
  ELSE LET t1 == [t EXCEPT !.height[p] =
                      1 + max(left_height(t, p), right_height(t, p)),
                      !.steps = @ + 1]
       IN IF abs(bf(t1, p)) > 1
          THEN LET x == p
                   direction == IF right_height(t1, x) > left_height(t1, x)
                                THEN "R" ELSE "L"
                   t2 == rotate("avl", t1, x, direction)
               IN IF t2.fault THEN t2
                  ELSE avl_retrace_wrong_way(t2, t2.paren[t2.paren[x]])
          ELSE avl_retrace_wrong_way(t1, t1.paren[p])

\* AVL::remove_retracing: walk from p to the root, refreshing the stored
\* height and rotating where the balance factor leaves -1..1
RECURSIVE avl_remove_retracing(_, _)
avl_remove_retracing(t, p) ==
  IF p = Nil \/ t.fault THEN t
  ELSE LET t1 == [t EXCEPT !.height[p] =
                      1 + max(left_height(t, p), right_height(t, p)),
                      !.steps = @ + 1]
       IN IF abs(bf(t1, p)) > 1
          THEN LET x == p
                   direction == IF right_height(t1, x) > left_height(t1, x)
                                THEN "L" ELSE "R"
                   heavy == child_bst(t1, x, reverse(direction))
               IN IF heavy = Nil THEN Fault(t1)
                  ELSE LET same_direction_height ==
                             child_height(t1, heavy, reverse(direction))
                           reverse_direction_height ==
                             child_height(t1, heavy, direction)
                           single ==
                             same_direction_height >= reverse_direction_height
                           t2 == IF single THEN rotate("avl", t1, x, direction)
                                 ELSE double_rotate("avl", t1, x, direction)
                           newp == IF single THEN heavy
                                   ELSE child_bst(t1, heavy, direction)
                       IN IF t2.fault THEN t2
                          ELSE avl_remove_retracing(t2, t2.paren[newp])
          ELSE avl_remove_retracing(t1, t1.paren[p])

\* AVL::insert_retracing
avl_insert_retracing(t, new_node) == avl_remove_retracing(t, new_node)

\* a faulty AVL::insert: the new node is hooked and nothing is retraced
avl_insert_no_retrace(t, k, v) ==
  LET r == basic_insert(t, k, v, 0)
  IN [t |-> r.t, ret |-> Bool(r.ret)]

\* AVL::insert
avl_insert(t, k, v) ==
  LET r == basic_insert(t, k, v, 0)
  IN IF ~r.ret THEN [t |-> r.t, ret |-> Bool(FALSE)]
     ELSE [t |-> avl_insert_retracing(r.t, k), ret |-> Bool(TRUE)]

\* AVL::remove: where the retrace enters after z is unlinked
avl_retracing_entry(t, z) ==
  IF t.left[z] = Nil \/ t.right[z] = Nil THEN t.paren[z]
  ELSE LET y == successor_bst(t, z)
       IN IF t.paren[y] # z THEN t.paren[y] ELSE y

\* AVL::remove
avl_remove(t, k) ==
  LET z == search_approximately(t, k)
  IN IF z = Nil THEN [t |-> t, ret |-> NoneV]
     ELSE IF t.key[z] # k THEN [t |-> t, ret |-> NoneV]
     ELSE LET retracing_entry == avl_retracing_entry(t, z)
              t1 == unlink(t, z)
              t2 == avl_remove_retracing(t1, retracing_entry)
          IN [t |-> NodeFree(t2, z), ret |-> Some(t2.value[z])]

\* --------------------------------------------------------------------- RB
is_black(t, n) == n = Nil \/ t.color[n] = BLACK
is_red(t, n) == ~is_black(t, n)
\* a faulty set_black: the colour is left as it is
keep_color(t, n) == t
set_black(t, n) == IF n # Nil THEN [t EXCEPT !.color[n] = BLACK] ELSE t
set_red(t, n) == IF n # Nil THEN [t EXCEPT !.color[n] = RED] ELSE t

\* a faulty insert fix-up: the root is blackened, nothing else is repaired
rb_blacken_root_only(t, x) == set_black(t, t.root)

\* a faulty insert fix-up: under a Black uncle g is always rotated once,
\* also when x is the inner grandchild
RECURSIVE rb_fixup_single_rotation(_, _)
rb_fixup_single_rotation(t, x) ==
  LET ts == [t EXCEPT !.steps = @ + 1]
      p == ts.paren[x]
  IN IF p = Nil THEN set_black(ts, x)
     ELSE IF ts.color[p] = BLACK THEN ts
     ELSE LET g == ts.paren[p]
          IN IF g = Nil THEN set_black(ts, p)
             ELSE LET u == sibling(ts, p)
                  IN IF is_red(ts, u)
                     THEN rb_fixup_single_rotation(
                            set_red(set_black(set_black(ts, p), u), g), g)
                     ELSE LET t1 == rotate("rb", ts, g, reverse(dir(ts, p)))
                          IN IF t1.fault THEN t1
                             ELSE set_red(set_black(t1, p), g)

\* RB::insert_retracing
RECURSIVE rb_insert_retracing(_, _)
rb_insert_retracing(t, x) ==
  LET ts == [t EXCEPT !.steps = @ + 1]
      p == ts.paren[x]
  IN IF p = Nil THEN set_black(ts, x)
     ELSE IF ts.color[p] = BLACK THEN ts
     ELSE LET g == ts.paren[p]
          IN IF g = Nil THEN set_black(ts, p)
             ELSE LET u == sibling(ts, p)
                  IN IF is_red(ts, u)
                     THEN rb_insert_retracing(
                            set_red(set_black(set_black(ts, p), u), g), g)
                     ELSE LET pdir == dir(ts, p)
                              x_dir == dir(ts, x)
                              t1 == IF pdir = x_dir
                                    THEN rotate("rb", ts, g, reverse(pdir))
                                    ELSE double_rotate("rb", ts, g, reverse(pdir))
                              new_root == IF pdir = x_dir THEN p ELSE x
                              the_other_dir == IF pdir = x_dir
                                               THEN reverse(x_dir) ELSE x_dir
                              the_other_child ==
                                child_bst(t1, new_root, the_other_dir)
                          IN IF t1.fault THEN t1
                             ELSE set_red(set_black(t1, new_root),
                                          the_other_child)

\* a faulty delete fix-up: the black leaf goes without any repair
rb_no_fixup(t, n) == t

\* RB::remove_retracing_black_non_root_leaf
RECURSIVE rb_remove_retracing_black_non_root_leaf(_, _)
rb_remove_retracing_black_non_root_leaf(t, n) ==
  LET ts == [t EXCEPT !.steps = @ + 1]
      p == ts.paren[n]
  IN IF p = Nil \/ ts.fault THEN ts
     ELSE
       LET d0 == IF n = ts.left[p] THEN "L" ELSE "R"
           s == child_bst(ts, p, reverse(d0))
       IN IF s = Nil THEN rb_remove_retracing_black_non_root_leaf(ts, p)
          ELSE
            LET c == child_bst(ts, s, d0)
                d == child_bst(ts, s, reverse(d0))
            IN IF is_red(ts, s)
               THEN LET t1 == rotate("rb", ts, p, d0)
                        t2 == [t1 EXCEPT !.color[p] = RED, !.color[s] = BLACK]
                    IN rb_remove_retracing_black_non_root_leaf(t2, n)
               ELSE IF is_black(ts, c) /\ is_black(ts, d)
               THEN LET t1 == [ts EXCEPT !.color[s] = RED]
                    IN IF is_black(t1, p)
                       THEN rb_remove_retracing_black_non_root_leaf(t1, p)
                       ELSE set_black(t1, p)
               ELSE IF is_red(ts, c)
               THEN LET t1 == double_rotate("rb", ts, p, d0)
                    IN [t1 EXCEPT !.color[c] = t1.color[p], !.color[p] = BLACK]
               ELSE LET t1 == rotate("rb", ts, p, d0)
                    IN [t1 EXCEPT !.color[s] = t1.color[p], !.color[d] = BLACK,
                                  !.color[p] = BLACK]

\* a faulty remove_retracing: a node without children gets the repair of a
\* Black one whatever its colour
rb_remove_repairs_any_leaf(t, n0) ==
  LET swapped == t.right[n0] # Nil
      successor == IF swapped THEN minimum(t, t.right[n0]) ELSE n0
      t0 == IF swapped THEN swap_with(t, n0, successor) ELSE t
      u == successor
      v == IF t0.left[u] = Nil THEN t0.right[u] ELSE t0.left[u]
  IN IF v = Nil
     THEN IF t0.paren[u] = Nil THEN [t |-> [t0 EXCEPT !.root = v], n |-> u]
          ELSE [t |-> subtree_shift(
                        rb_remove_retracing_black_non_root_leaf(t0, u), u, v),
                n |-> u]
     ELSE LET t1 == subtree_shift(t0, u, v)
          IN IF is_red(t1, u) \/ is_red(t1, v)
             THEN [t |-> set_black(t1, v), n |-> u]
             ELSE IF t1.paren[u] = Nil THEN [t |-> t1, n |-> u]
             ELSE [t |-> rb_remove_retracing_black_non_root_leaf(t1, v),
                   n |-> u]

\* RB::remove_retracing: the tree and the node that was unlinked
rb_remove_retracing(t, n0) ==
  LET swapped == t.right[n0] # Nil
      successor == IF swapped THEN minimum(t, t.right[n0]) ELSE n0
      t0 == IF swapped THEN swap_with(t, n0, successor) ELSE t
      u == successor
      v == IF t0.left[u] = Nil THEN t0.right[u] ELSE t0.left[u]
  IN IF v = Nil
     THEN IF t0.paren[u] = Nil THEN [t |-> [t0 EXCEPT !.root = v], n |-> u]
          ELSE LET t1 == IF is_black(t0, u)
                         THEN rb_remove_retracing_black_non_root_leaf(t0, u)
                         ELSE set_red(t0, sibling(t0, u))
               IN [t |-> subtree_shift(t1, u, v), n |-> u]
     ELSE LET t1 == subtree_shift(t0, u, v)
          IN IF is_red(t1, u) \/ is_red(t1, v)
             THEN [t |-> set_black(t1, v), n |-> u]
             ELSE IF t1.paren[u] = Nil THEN [t |-> t1, n |-> u]
             ELSE [t |-> rb_remove_retracing_black_non_root_leaf(t1, v),
                   n |-> u]

\* The node that survives a swap_with holds a key other than the one it was
\* created for.  Addresses are opaque, so the heap is renamed to put every
\* node back at the address of its key.
Rehome(t) ==
  LET at(k) == CHOOSE a \in Addr : t.key[a] = k
      live(k) == \E a \in Addr : t.key[a] = k
      to(a) == IF a = Nil THEN Nil ELSE t.key[a]
  IN [root |-> to(t.root),
      left |-> [k \in Addr |-> IF live(k) THEN to(t.left[at(k)]) ELSE Nil],
      right |-> [k \in Addr |-> IF live(k) THEN to(t.right[at(k)]) ELSE Nil],
      paren |-> [k \in Addr |-> IF live(k) THEN to(t.paren[at(k)]) ELSE Nil],
      key |-> [k \in Addr |-> IF live(k) THEN k ELSE 0],
      value |-> [k \in Addr |-> IF live(k) THEN t.value[at(k)] ELSE 0],
      height |-> [k \in Addr |-> IF live(k) THEN t.height[at(k)] ELSE 0],
      color |-> [k \in Addr |-> IF live(k) THEN t.color[at(k)] ELSE BLACK],
      weight |-> [k \in Addr |-> IF live(k) THEN t.weight[at(k)] ELSE 0],
      fault |-> t.fault, rots |-> t.rots, drots |-> t.drots,
      steps |-> t.steps]

\* RB::insert
rb_insert(t, k, v) ==
  LET r == basic_insert(t, k, v, 0)
  IN IF ~r.ret THEN [t |-> r.t, ret |-> Bool(FALSE)]
     ELSE [t |-> rb_insert_retracing(r.t, k), ret |-> Bool(TRUE)]

\* a faulty RB::remove: the value is read from the node that was found, which
\* after a swap_with holds the successor's pair
rb_remove_value_of_found(t, k) ==
  LET approxi_node == search_approximately(t, k)
  IN IF approxi_node = Nil THEN [t |-> t, ret |-> NoneV]
     ELSE IF t.key[approxi_node] # k THEN [t |-> t, ret |-> NoneV]
     ELSE LET r == rb_remove_retracing(t, approxi_node)
          IN [t |-> Rehome(NodeFree(r.t, r.n)),
              ret |-> Some(r.t.value[approxi_node])]

\* RB::remove with RBNode::node_into_value
rb_remove(t, k) ==
  LET approxi_node == search_approximately(t, k)
  IN IF approxi_node = Nil THEN [t |-> t, ret |-> NoneV]
     ELSE IF t.key[approxi_node] # k THEN [t |-> t, ret |-> NoneV]
     ELSE LET r == rb_remove_retracing(t, approxi_node)
          IN [t |-> Rehome(NodeFree(r.t, r.n)), ret |-> Some(r.t.value[r.n])]

\* ------------------------------------------------------------------ Splay
\* a faulty Splay::splay: one rotation only
splay_once(t, x) ==
  IF t.paren[x] = Nil \/ t.fault THEN t
  ELSE rotate("splay", t, t.paren[x], reverse(dir(t, x)))

\* Splay::splay: rotate x's parent away from x until x has no parent
RECURSIVE splay(_, _)
splay(t, x) ==
  IF t.paren[x] = Nil \/ t.fault THEN t
  ELSE LET x_dir == dir(t, x)
       IN splay(rotate("splay", [t EXCEPT !.steps = @ + 1], t.paren[x],
                       reverse(x_dir)), x)

\* a faulty Splay::insert: a key already present is overwritten and splayed
splay_upsert(t, k, v) ==
  LET approxi_node == search_approximately(t, k)
  IN IF approxi_node = Nil
     THEN [t |-> [NodeNew(t, k, v, 0) EXCEPT !.root = k], ret |-> Bool(TRUE)]
     ELSE IF t.key[approxi_node] = k
     THEN [t |-> splay([t EXCEPT !.value[approxi_node] = v], approxi_node),
           ret |-> Bool(TRUE)]
     ELSE [t |-> splay(conn_child(NodeNew(t, k, v, 0), approxi_node, k,
                                  IF k < t.key[approxi_node] THEN "L" ELSE "R"),
                       k),
           ret |-> Bool(TRUE)]

\* Splay::insert: its own copy of the hooking of basic_insert, then splay
splay_insert(t, k, v) ==
  LET approxi_node == search_approximately(t, k)
  IN IF approxi_node # Nil /\ t.key[approxi_node] = k
     THEN [t |-> t, ret |-> Bool(FALSE)]
     ELSE LET t1 == NodeNew(t, k, v, 0)
              new_node == k
              t2 == IF approxi_node = Nil
                    THEN [assign_paren(t1, new_node, approxi_node)
                            EXCEPT !.root = new_node]
                    ELSE IF k < t1.key[approxi_node]
                         THEN conn_child(t1, approxi_node, new_node, "L")
                         ELSE conn_child(t1, approxi_node, new_node, "R")
          IN [t |-> splay(t2, new_node), ret |-> Bool(TRUE)]

\* Splay::remove
splay_remove(t, k) ==
  LET approxi_node == search_approximately(t, k)
  IN IF approxi_node = Nil THEN [t |-> t, ret |-> NoneV]
     ELSE IF t.key[approxi_node] # k THEN [t |-> t, ret |-> NoneV]
     ELSE LET t1 == unlink(splay(t, approxi_node), approxi_node)
          IN [t |-> NodeFree(t1, approxi_node),
              ret |-> Some(t1.value[approxi_node])]

\* Splay::modify: the approximate node is overwritten and splayed
splay_modify(t, k, v) ==
  LET app_node == search_approximately(t, k)
  IN IF app_node = Nil THEN [t |-> t, ret |-> Bool(FALSE)]
     ELSE [t |-> splay([t EXCEPT !.value[app_node] = v], app_node),
           ret |-> Bool(TRUE)]

\* Splay::get / Splay::get_mut
splay_get(t, k) ==
  LET res == search_approximately(t, k)
  IN IF res = Nil \/ t.key[res] # k THEN [t |-> t, ret |-> NoneV]
     ELSE [t |-> splay(t, res), ret |-> Some(t.value[res])]

\* ------------------------------------------------------------------ Treap
\* Treap::find
RECURSIVE find(_, _, _)
find(t, x, k) ==
  IF x = Nil THEN Nil
  ELSE IF k = t.key[x] THEN x
  ELSE IF k < t.key[x] THEN find(t, t.left[x], k)
  ELSE find(t, t.right[x], k)

\* a faulty split: a node whose key equals k goes to the right part
RECURSIVE split_strict(_, _, _)
split_strict(t, x, k) ==
  IF x = Nil THEN [t |-> t, l |-> Nil, r |-> Nil]
  ELSE IF k <= t.key[x]
  THEN LET s == split_strict(t, t.left[x], k)
       IN [t |-> conn_child(s.t, x, s.r, "L"), l |-> s.l, r |-> x]
  ELSE LET s == split_strict(t, t.right[x], k)
       IN [t |-> conn_child(s.t, x, s.l, "R"), l |-> x, r |-> s.r]

\* Treap::split: [t, l, r] with l the part <= k and r the part > k
RECURSIVE split(_, _, _)
split(t, x, k) ==
  IF x = Nil THEN [t |-> t, l |-> Nil, r |-> Nil]
  ELSE IF k < t.key[x]
  THEN LET s == split([t EXCEPT !.steps = @ + 1], t.left[x], k)
       IN [t |-> conn_child(s.t, x, s.r, "L"), l |-> s.l, r |-> x]
  ELSE LET s == split([t EXCEPT !.steps = @ + 1], t.right[x], k)
       IN [t |-> conn_child(s.t, x, s.l, "R"), l |-> x, r |-> s.r]

\* a faulty join: v goes on top whatever the weights
RECURSIVE join_right_on_top(_, _, _)
join_right_on_top(t, u, v) ==
  IF u = Nil THEN [t |-> t, n |-> v]
  ELSE IF v = Nil THEN [t |-> t, n |-> u]
  ELSE LET j == join_right_on_top(t, u, t.left[v])
       IN [t |-> conn_child(j.t, v, j.n, "L"), n |-> v]

\* a faulty join: u stays on top whatever the weights
RECURSIVE join_left_on_top(_, _, _)
join_left_on_top(t, u, v) ==
  IF u = Nil THEN [t |-> t, n |-> v]
  ELSE IF v = Nil THEN [t |-> t, n |-> u]
  ELSE LET j == join_left_on_top(t, t.right[u], v)
       IN [t |-> conn_child(j.t, u, j.n, "R"), n |-> u]

\* Treap::join: [t, n] with n the root of the merged tree
RECURSIVE join(_, _, _)
join(t, u, v) ==
  IF u = Nil THEN [t |-> t, n |-> v]
  ELSE IF v = Nil THEN [t |-> t, n |-> u]
  ELSE IF t.weight[u] > t.weight[v]
  THEN LET j == join([t EXCEPT !.steps = @ + 1], t.right[u], v)
       IN [t |-> conn_child(j.t, u, j.n, "R"), n |-> u]
  ELSE LET j == join([t EXCEPT !.steps = @ + 1], u, t.left[v])
       IN [t |-> conn_child(j.t, v, j.n, "L"), n |-> v]

\* a faulty reset_root: the new root keeps its parent link
treap_set_root_only(t, r) == [t EXCEPT !.root = r]

\* Treap::reset_root
treap_reset_root(t, r) ==
  LET t1 == [t EXCEPT !.root = r]
  IN IF r # Nil THEN [t1 EXCEPT !.paren[r] = Nil] ELSE t1

\* a faulty insert_: the new node is joined in front of the smaller keys
insert_in_front(t, k, v, w) ==
  IF t.root = Nil
  THEN [t |-> [NodeNew(t, k, v, w) EXCEPT !.root = k], ret |-> TRUE]
  ELSE IF find(t, t.root, k) # Nil THEN [t |-> t, ret |-> FALSE]
  ELSE LET s == split(t, t.root, k)
           j1 == join(NodeNew(s.t, k, v, w), k, s.l)
           j2 == join(j1.t, j1.n, s.r)
       IN [t |-> treap_reset_root(j2.t, j2.n), ret |-> TRUE]

\* Treap::insert_
insert_(t, k, v, w) ==
  IF t.root = Nil
  THEN [t |-> [NodeNew(t, k, v, w) EXCEPT !.root = k], ret |-> TRUE]
  ELSE IF find(t, t.root, k) # Nil THEN [t |-> t, ret |-> FALSE]
  ELSE LET s == split(t, t.root, k)
           j1 == join(NodeNew(s.t, k, v, w), s.l, k)
           j2 == join(j1.t, j1.n, s.r)
       IN [t |-> treap_reset_root(j2.t, j2.n), ret |-> TRUE]

\* Treap::remove_: the tree and the node taken out (Nil for None); the node
\* is still allocated
remove_(t, k) ==
  IF t.root = Nil THEN [t |-> t, n |-> Nil]
  ELSE LET x == find(t, t.root, k)
       IN IF x = Nil THEN [t |-> t, n |-> Nil]
          ELSE LET pred == precessor_bst(t, x)
               IN IF pred = Nil
                  THEN LET s == split(t, t.root, k)
                       IN [t |-> treap_reset_root(s.t, s.r), n |-> x]
                  ELSE LET pred_key == t.key[pred]
                           s1 == split(t, t.root, pred_key)
                           s2 == split(s1.t, s1.r, k)
                           j == join(s2.t, s1.l, s2.r)
                       IN [t |-> treap_reset_root(j.t, j.n), n |-> x]

\* Treap as Dictionary: insert with a weight drawn by rand::random
treap_insert(t, k, v, w) ==
  LET r == insert_(t, k, v, w) IN [t |-> r.t, ret |-> Bool(r.ret)]

\* Treap as Dictionary: remove (TreapNode::into_value)
treap_remove(t, k) ==
  LET r == remove_(t, k)
  IN IF r.n = Nil THEN [t |-> r.t, ret |-> NoneV]
     ELSE [t |-> NodeFree(r.t, r.n), ret |-> Some(r.t.value[r.n])]

\* a faulty walk: it goes on past the lighter nodes instead of the heavier
RECURSIVE spine_walk_lighter(_, _, _, _)
spine_walk_lighter(t, x, prev, w) ==
  IF x # Nil /\ t.weight[x] < w THEN spine_walk_lighter(t, t.right[x], x, w)
  ELSE [x |-> x, prev |-> prev]

\* one step of the loop of Treap::bulk_load: the walk down the right spine
RECURSIVE spine_walk(_, _, _, _)
spine_walk(t, x, prev, w) ==
  IF x # Nil /\ t.weight[x] > w THEN spine_walk(t, t.right[x], x, w)
  ELSE [x |-> x, prev |-> prev]

\* Treap::bulk_load over a sequence of <<key, value, weight>>
RECURSIVE bulk_load_from(_, _, _)
bulk_load_from(t, seq, i) ==
  IF i > Len(seq) THEN t
  ELSE LET k == seq[i][1]
           w == seq[i][3]
           pos == spine_walk(t, t.root, t.root, w)
           t1 == NodeNew(t, k, seq[i][2], w)
           new_node == k
       IN bulk_load_from(
            IF pos.x # Nil
            THEN LET x_paren == t1.paren[pos.x]
                     t2 == conn_child(t1, new_node, pos.x, "L")
                 IN IF x_paren = Nil THEN [t2 EXCEPT !.root = new_node]
                    ELSE conn_child(t2, x_paren, new_node, "R")
            ELSE conn_child(t1, pos.prev, new_node, "R"),
            seq, i + 1)

bulk_load(seq) ==
  IF Len(seq) = 0 THEN EmptyTree
  ELSE bulk_load_from(insert_(EmptyTree, seq[1][1], seq[1][2], seq[1][3]).t,
                      seq, 2)

\* ----------------------------------------------------------- Treap as Heap
\* Heap::top
heap_top(t) == IF t.root = Nil THEN NoneV ELSE Some(t.weight[t.root])

\* a faulty pop: the weight of the root is returned and the entry stays
heap_pop_keeps_entry(t) == [t |-> t, ret |-> heap_top(t)]

\* Heap::pop: remove_ of the root's key, mapped to the node's weight
heap_pop(t) ==
  IF t.root = Nil THEN [t |-> t, ret |-> NoneV]
  ELSE LET r == remove_(t, t.key[t.root])
       IN IF r.n = Nil THEN [t |-> r.t, ret |-> NoneV]
          ELSE [t |-> NodeFree(r.t, r.n), ret |-> Some(r.t.weight[r.n])]

\* Heap::push: insert_ with the unit value, its result dropped
heap_push(t, k, w) == [t |-> insert_(t, k, 0, w).t, ret |-> Unit]

\* Coll::len for Treap: todo!(), which panics
heap_len(t) == [t |-> Fault(t), ret |-> Unit]

\* Coll::is_empty, the provided method of the trait: len() == 0
coll_is_empty(t) ==
  LET l == heap_len(t)
  IN IF l.t.fault THEN l ELSE [t |-> l.t, ret |-> Bool(l.ret = Some(0))]

\* Treap::is_empty, the inherent method
treap_is_empty(t) == [t |-> t, ret |-> Bool(t.root = Nil)]

\* ----------------------------------------------------------- self_validate
\* TRUE stands for Ok(()), FALSE for a failed assert!
\* BTNode::basic_self_validate for order 2: each child's key against its
\* parent's key, down the tree
RECURSIVE basic_self_validate_node(_, _)
basic_self_validate_node(t, x) ==
  /\ t.left[x] # Nil =>
       /\ t.key[t.left[x]] < t.key[x]
       /\ basic_self_validate_node(t, t.left[x])
  /\ t.right[x] # Nil =>
       /\ t.key[t.right[x]] > t.key[x]
       /\ basic_self_validate_node(t, t.right[x])

\* BT::basic_self_validate
basic_self_validate(t) ==
  IF t.root = Nil THEN TRUE ELSE basic_self_validate_node(t, t.root)

\* BTNode::calc_height: counted on the links
RECURSIVE calc_height(_, _)
calc_height(t, x) ==
  max(IF t.left[x] = Nil THEN -1 ELSE calc_height(t, t.left[x]),
      IF t.right[x] = Nil THEN -1 ELSE calc_height(t, t.right[x])) + 1

\* BSTNode::calc_left_height / calc_right_height
calc_child_height(t, x, d) ==
  IF child_bst(t, x, d) = Nil THEN -1 ELSE calc_height(t, child_bst(t, x, d))

\* AVLNode::calc_bf
calc_bf(t, x) == calc_child_height(t, x, "R") - calc_child_height(t, x, "L")

\* AVLNode::self_validate: the balance factor of this node alone
avl_node_self_validate(t, x) == abs(calc_bf(t, x)) < 2

\* AVL::self_validate
avl_self_validate(t) ==
  /\ basic_self_validate(t)
  /\ t.root # Nil => avl_node_self_validate(t, t.root)

\* RBNode::self_validate: a Red node has Black children, down the tree
RECURSIVE rb_node_self_validate(_, _)
rb_node_self_validate(t, x) ==
  /\ basic_self_validate_node(t, x)
  /\ t.color[x] = RED => is_black(t, t.left[x]) /\ is_black(t, t.right[x])
  /\ t.left[x] # Nil => rb_node_self_validate(t, t.left[x])
  /\ t.right[x] # Nil => rb_node_self_validate(t, t.right[x])

\* RBNode::leafs: the parents of Knuth's leaves below x, one entry per empty
\* link
RECURSIVE leafs(_, _)
leafs(t, p) ==
  (IF t.left[p] = Nil THEN {<<p, "L">>} ELSE leafs(t, t.left[p]))
  \cup (IF t.right[p] = Nil THEN {<<p, "R">>} ELSE leafs(t, t.right[p]))

\* RBNode::black_depth of a leaf whose parent is p: the Black nodes on the
\* parent links from p up
RECURSIVE black_depth(_, _)
black_depth(t, p) ==
  IF p = Nil THEN 0
  ELSE (IF is_black(t, p) THEN 1 ELSE 0) + black_depth(t, t.paren[p])

\* RB::self_validate
rb_self_validate(t) ==
  /\ basic_self_validate(t)
  /\ t.root # Nil =>
       /\ rb_node_self_validate(t, t.root)
       /\ \A a, b \in leafs(t, t.root) :
            black_depth(t, a[1]) = black_depth(t, b[1])

\* BTNode::bfs_do: the nodes the walk from x visits; the loop over the
\* children breaks at the first empty one
RECURSIVE bfs_do(_, _)
bfs_do(t, x) ==
  {x} \cup (IF t.left[x] = Nil THEN {}
           ELSE bfs_do(t, t.left[x])
                \cup (IF t.right[x] = Nil THEN {} ELSE bfs_do(t, t.right[x])))

\* TreapNode::self_validate: the weights of the visited nodes against their
\* children's, down the tree
RECURSIVE treap_node_self_validate(_, _)
treap_node_self_validate(t, x) ==
  /\ basic_self_validate_node(t, x)
  /\ \A y \in bfs_do(t, x) :
       /\ t.left[y] # Nil => t.weight[y] >= t.weight[t.left[y]]
       /\ t.right[y] # Nil => t.weight[y] >= t.weight[t.right[y]]
  /\ t.left[x] # Nil => treap_node_self_validate(t, t.left[x])
  /\ t.right[x] # Nil => treap_node_self_validate(t, t.right[x])

\* Treap::self_validate
treap_self_validate(t) ==
  /\ basic_self_validate(t)
  /\ t.root # Nil => treap_node_self_validate(t, t.root)

\* ------------------------------------------------- Dictionary by variant
dict_insert(vt, t, k, v, w) ==
  CASE vt = "raw" -> raw_insert(t, k, v)
    [] vt = "avl" -> avl_insert(t, k, v)
    [] vt = "rb" -> rb_insert(t, k, v)
    [] vt = "splay" -> splay_insert(t, k, v)
    [] OTHER -> treap_insert(t, k, v, w)

dict_remove(vt, t, k) ==
  CASE vt = "raw" -> raw_remove(t, k)
    [] vt = "avl" -> avl_remove(t, k)
    [] vt = "rb" -> rb_remove(t, k)
    [] vt = "splay" -> splay_remove(t, k)
    [] OTHER -> treap_remove(t, k)

dict_modify(vt, t, k, v) ==
  IF vt = "splay" THEN splay_modify(t, k, v) ELSE basic_modify(t, k, v)

dict_get(vt, t, k) ==
  IF vt = "splay" THEN splay_get(t, k) ELSE [t |-> t, ret |-> basic_lookup(t, k)]

\* Dictionary::self_validate (RawST and Splay: basic_self_validate)
dict_self_validate(vt, t) ==
  IF vt = "avl" THEN avl_self_validate(t)
  ELSE IF vt = "rb" THEN rb_self_validate(t)
  ELSE IF vt \in {"treap", "heap"} THEN treap_self_validate(t)
  ELSE basic_self_validate(t)

\* ------------------------------------------------------------ the machine
DictVariants == {"raw", "avl", "rb", "splay", "treap"}

Size(t) == Cardinality({a \in Addr : t.key[a] # 0})

\* most nodes a tree of the variant holds in the model
Cap(vt) ==
  IF vt \in {"raw", "splay"} THEN MaxPlain
  ELSE IF vt \in {"treap", "heap"} THEN MaxTreap
  ELSE MaxKey

\* the keys the calls on a variant draw: one more than its tree may hold
KeysOf(vt) == 1..(IF Cap(vt) + 1 < MaxKey THEN Cap(vt) + 1 ELSE MaxKey)

HasKey(t, k) == \E a \in Addr : t.key[a] = k

\* the weights an insert may draw: only the Treap draws one
Draws(vt) == IF vt = "treap" THEN Weights ELSE {0}

Commit(t) ==
  /\ root' = t.root
  /\ left' = t.left
  /\ right' = t.right
  /\ paren' = t.paren
  /\ key' = t.key
  /\ value' = t.value
  /\ height' = t.height
  /\ color' = t.color
  /\ weight' = t.weight
  /\ fault' = t.fault

Done(name, r) ==
  /\ Commit(r.t)
  /\ op' = name
  /\ ret' = r.ret
  /\ UNCHANGED <<variant, elems>>

\* the instance accepts a call
Ready == op \in {"new", "idle"} /\ ~fault

Init ==
  /\ variant \in Variants
  /\ root = EmptyTree.root
  /\ left = EmptyTree.left
  /\ right = EmptyTree.right
  /\ paren = EmptyTree.paren
  /\ key = EmptyTree.key
  /\ value = EmptyTree.value
  /\ height = EmptyTree.height
  /\ color = EmptyTree.color
  /\ weight = EmptyTree.weight
  /\ fault = FALSE
  /\ op = "new"
  /\ ret = Unit
  /\ elems = <<>>

Insert(k, v, w) ==
  /\ variant \in DictVariants /\ Ready
  /\ HasKey(Tree, k) \/ Size(Tree) < Cap(variant)
  /\ Done("insert", dict_insert(variant, Tree, k, v, w))

Remove(k) ==
  /\ variant \in DictVariants /\ Ready
  /\ Done("remove", dict_remove(variant, Tree, k))

Modify(k, v) ==
  /\ variant \in DictVariants /\ Ready
  /\ Done("modify", dict_modify(variant, Tree, k, v))

Get(k) ==
  /\ variant \in DictVariants /\ Ready
  /\ Done("get", dict_get(variant, Tree, k))

GetMut(k) ==
  /\ variant \in DictVariants /\ Ready
  /\ Done("get_mut", dict_get(variant, Tree, k))

\* self_validate: Ok(()) or the panic of a failed assert!
SelfValidate ==
  /\ Ready
  /\ Done("self_validate",
          [t |-> IF dict_self_validate(variant, Tree) THEN Tree
                 ELSE Fault(Tree),
           ret |-> Unit])

Push(k, w) ==
  /\ variant = "heap" /\ Ready
  /\ HasKey(Tree, k) \/ Size(Tree) < Cap(variant)
  /\ Done("push", heap_push(Tree, k, w))

Pop ==
  /\ variant = "heap" /\ Ready
  /\ Done("pop", heap_pop(Tree))

Top ==
  /\ variant = "heap" /\ Ready
  /\ Done("top", [t |-> Tree, ret |-> heap_top(Tree)])

\* len called on the heap
HeapLen ==
  /\ variant = "heap" /\ Ready
  /\ Done("len", heap_len(Tree))

\* is_empty called on the Treap itself
IsEmpty ==
  /\ variant = "heap" /\ Ready
  /\ Done("is_empty", treap_is_empty(Tree))

\* is_empty called through the Coll / Heap trait
CollIsEmpty ==
  /\ variant = "heap" /\ Ready
  /\ Done("Coll::is_empty", coll_is_empty(Tree))

\* strictly increasing key sequences of at most n triples, for bulk_load
RECURSIVE SortedSeqs(_, _)
SortedSeqs(lo, n) ==
  {<<>>} \cup
  (IF n = 0 THEN {}
   ELSE UNION {{<<<<k, v, w>>>> \o s : s \in SortedSeqs(k + 1, n - 1)} :
               <<k, v, w>> \in (KeysOf("treap") \ (1..(lo - 1)))
                                 \X Values \X Weights})

\* Treap::bulk_load builds a new treap from a sequence sorted by key
BulkLoad ==
  /\ variant = "treap" /\ ~fault /\ op = "new"
  /\ \E seq \in SortedSeqs(1, MaxTreap) :
       Done("bulk_load", [t |-> bulk_load(seq), ret |-> Unit])

\* the caller takes the result; the tree waits for the next call
Return ==
  /\ op \notin {"new", "idle"}
  /\ op' = "idle"
  /\ ret' = Unit
  /\ UNCHANGED <<variant, root, left, right, paren, key, value, height, color,
                 weight, fault, elems>>

Next ==
  \/ \E k \in KeysOf(variant), v \in Values, w \in Draws(variant) :
       Insert(k, v, w)
  \/ \E k \in KeysOf(variant) : Remove(k)
  \/ \E k \in KeysOf(variant), v \in Values : Modify(k, v)
  \/ \E k \in KeysOf(variant) : Get(k)
  \/ \E k \in KeysOf(variant) : GetMut(k)
  \/ SelfValidate
  \/ \E k \in KeysOf(variant), w \in HeapWeights : Push(k, w)
  \/ Pop
  \/ Top
  \/ HeapLen
  \/ IsEmpty
  \/ CollIsEmpty
  \/ BulkLoad
  \/ Return

Spec == Init /\ [][Next]_vars

\* ------------------------------------------------- a batch, inserted in order
\* gen_data: the batches of at most n pairs with distinct keys, in any order
RECURSIVE gen_data(_, _)
gen_data(ks, n) ==
  {<<>>} \cup
  (IF n = 0 THEN {}
   ELSE UNION {{<<<<k, v>>>> \o s : s \in gen_data(ks \ {k}, n - 1)} :
               <<k, v>> \in ks \X Values})

\* a new dictionary and a batch to insert
InitElems ==
  /\ variant \in DictVariants
  /\ root = EmptyTree.root
  /\ left = EmptyTree.left
  /\ right = EmptyTree.right
  /\ paren = EmptyTree.paren
  /\ key = EmptyTree.key
  /\ value = EmptyTree.value
  /\ height = EmptyTree.height
  /\ color = EmptyTree.color
  /\ weight = EmptyTree.weight
  /\ fault = FALSE
  /\ op = "new"
  /\ ret = Unit
  /\ elems \in gen_data(1..(MaxElems + 1), MaxElems)

\* the loop over the batch: the next pair goes in
InsertElem ==
  /\ ~fault /\ Size(Tree) < Len(elems)
  /\ LET e == elems[Size(Tree) + 1]
     IN \E w \in Draws(variant) :
          Done("insert", dict_insert(variant, Tree, e[1], e[2], w))

NextElems == InsertElem

SpecElems == InitElems /\ [][NextElems]_vars

\* -------------------------------- triples, inserted one by one into a treap
\* the batches of at most n triples with distinct keys and distinct weights,
\* in any order
RECURSIVE Triples(_, _, _)
Triples(ks, ws, n) ==
  {<<>>} \cup
  (IF n = 0 THEN {}
   ELSE UNION {{<<<<k, v, w>>>> \o s : s \in Triples(ks \ {k}, ws \ {w}, n - 1)} :
               <<k, v, w>> \in ks \X Values \X ws})

\* a new treap and a batch of triples to insert
InitTriples ==
  /\ variant = "treap"
  /\ root = EmptyTree.root
  /\ left = EmptyTree.left
  /\ right = EmptyTree.right
  /\ paren = EmptyTree.paren
  /\ key = EmptyTree.key
  /\ value = EmptyTree.value
  /\ height = EmptyTree.height
  /\ color = EmptyTree.color
  /\ weight = EmptyTree.weight
  /\ fault = FALSE
  /\ op = "new"
  /\ ret = Unit
  /\ elems \in Triples(1..(MaxElems + 1), 1..MaxElems, MaxElems)

\* Treap::insert_ of the next triple of the batch
InsertTriple ==
  /\ ~fault /\ Size(Tree) < Len(elems)
  /\ LET e == elems[Size(Tree) + 1]
         r == insert_(Tree, e[1], e[2], e[3])
     IN Done("insert_", [t |-> r.t, ret |-> Bool(r.ret)])

NextTriples == InsertTriple

SpecTriples == InitTriples /\ [][NextTriples]_vars

\* ------------------------------------------- keys inserted in rising order
\* a new raw, AVL or red-black tree
InitRising ==
  /\ variant \in {"raw", "avl", "rb"}
  /\ root = EmptyTree.root
  /\ left = EmptyTree.left
  /\ right = EmptyTree.right
  /\ paren = EmptyTree.paren
  /\ key = EmptyTree.key
  /\ value = EmptyTree.value
  /\ height = EmptyTree.height
  /\ color = EmptyTree.color
  /\ weight = EmptyTree.weight
  /\ fault = FALSE
  /\ op = "new"
  /\ ret = Unit
  /\ elems = <<>>

\* insert of a key greater than every key of the tree
InsertRising ==
  /\ ~fault
  /\ \E k \in Keys, v \in Values :
       /\ \A a \in Addr : key[a] < k
       /\ Done("insert", dict_insert(variant, Tree, k, v, 0))

NextRising == InsertRising

SpecRising == InitRising /\ [][NextRising]_vars

\* ------------------------------------ any tree, handed to self_validate
\* the binary trees on the nodes lo..hi with the keys in search order
RECURSIVE Shapes(_, _)
Shapes(lo, hi) ==
  IF lo > hi
  THEN {[root |-> Nil, left |-> [a \in Addr |-> Nil],
         right |-> [a \in Addr |-> Nil]]}
  ELSE UNION {
         {[root |-> r,
           left |-> [a \in Addr |-> IF a = r THEN l.root
                                     ELSE IF a < r THEN l.left[a]
                                     ELSE g.left[a]],
           right |-> [a \in Addr |-> IF a = r THEN g.root
                                      ELSE IF a < r THEN l.right[a]
                                      ELSE g.right[a]]] :
            l \in Shapes(lo, r - 1), g \in Shapes(r + 1, hi)} :
         r \in lo..hi}

\* the parent links that agree with the child links
ParenOf(sh) ==
  [a \in Addr |->
     IF \E q \in Addr : sh.left[q] = a \/ sh.right[q] = a
     THEN CHOOSE q \in Addr : sh.left[q] = a \/ sh.right[q] = a
     ELSE Nil]

\* a tree of any shape with correct keys and links; any colours on a
\* red-black tree, any weights on a treap
InitTrees ==
  \E n \in 0..MaxShape : \E sh \in Shapes(1, n) :
    /\ variant \in DictVariants
    /\ root = sh.root
    /\ left = sh.left
    /\ right = sh.right
    /\ paren = ParenOf(sh)
    /\ key = [a \in Addr |-> IF a <= n THEN a ELSE 0]
    /\ value = [a \in Addr |-> IF a <= n THEN 1 ELSE 0]
    /\ height = [a \in Addr |-> 0]
    /\ color \in [Addr -> {RED, BLACK}]
    /\ \A a \in Addr : (a > n \/ variant # "rb") => color[a] = BLACK
    /\ weight \in [Addr -> 0..MaxWeight]
    /\ \A a \in Addr : weight[a] = 0 <=> (a > n \/ variant # "treap")
    /\ fault = FALSE
    /\ op = "new"
    /\ ret = Unit
    /\ elems = <<>>

\* the keys of two nodes change places
SwapKeys ==
  /\ op = "new"
  /\ \E a, b \in Addr :
       /\ a < b /\ key[a] # 0 /\ key[b] # 0
       /\ key' = [key EXCEPT ![a] = key[b], ![b] = key[a]]
  /\ op' = "idle"
  /\ UNCHANGED <<variant, root, left, right, paren, value, height, color,
                 weight, fault, ret, elems>>

\* the parent links from every node end at an empty link
RECURSIVE ParenEnds(_, _, _)
ParenEnds(pa, a, n) ==
  IF a = Nil THEN TRUE
  ELSE IF n = 0 THEN FALSE
  ELSE ParenEnds(pa, pa[a], n - 1)

\* the parent link of one node points elsewhere
Reparent ==
  /\ op = "new"
  /\ \E a \in Addr, q \in Addr \cup {Nil} :
       /\ key[a] # 0 /\ q # paren[a]
       /\ IF q = Nil THEN TRUE ELSE key[q] # 0
       /\ paren' = [paren EXCEPT ![a] = q]
       /\ \A b \in Addr : ParenEnds(paren', b, MaxKey)
  /\ op' = "idle"
  /\ UNCHANGED <<variant, root, left, right, key, value, height, color,
                 weight, fault, ret, elems>>

NextTrees == SwapKeys \/ Reparent \/ SelfValidate

SpecTrees == InitTrees /\ [][NextTrees]_vars

\* ------------------------------------------------------------- properties
\* the in-order walk from x, at most n links deep (a tree of the model is no
\* deeper than MaxKey; a walk cut short by a cycle repeats a key)
RECURSIVE InOrder(_, _, _)
InOrder(t, x, n) ==
  IF x = Nil \/ n = 0 THEN <<>>
  ELSE InOrder(t, t.left[x], n - 1) \o <<t.key[x]>>
       \o InOrder(t, t.right[x], n - 1)

StrictlyIncreasing(s) == \A i \in 1..(Len(s) - 1) : s[i] < s[i + 1]

\* the nodes of the subtree of x
RECURSIVE SubtreeUpTo(_, _, _)
SubtreeUpTo(t, x, n) ==
  IF x = Nil \/ n = 0 THEN {}
  ELSE {x} \cup SubtreeUpTo(t, t.left[x], n - 1)
           \cup SubtreeUpTo(t, t.right[x], n - 1)

Subtree(t, x) == SubtreeUpTo(t, x, MaxKey + 1)

\* the nodes of the tree
Nodes(t) == Subtree(t, t.root)

\* the height of the subtree of x counted on the links: -1 for none, 0 for a
\* leaf
RECURSIVE HeightUpTo(_, _, _)
HeightUpTo(t, x, n) ==
  IF x = Nil \/ n = 0 THEN -1
  ELSE 1 + max(HeightUpTo(t, t.left[x], n - 1), HeightUpTo(t, t.right[x], n - 1))

ActualHeight(t, x) == HeightUpTo(t, x, MaxKey + 1)

\* the numbers of Black nodes on the paths from x down to an empty link
RECURSIVE BlackCounts(_, _, _)
BlackCounts(t, x, n) ==
  IF x = Nil \/ n = 0 THEN {0}
  ELSE {c + (IF t.color[x] = BLACK THEN 1 ELSE 0) :
          c \in BlackCounts(t, t.left[x], n - 1)
                \cup BlackCounts(t, t.right[x], n - 1)}

Children(t, p) == {t.left[p], t.right[p]} \ {Nil}

\* C1: after every public operation on any variant, the in-order walk of the
\* tree yields a strictly increasing key sequence.
C1_InOrderStrictlyIncreasing ==
  StrictlyIncreasing(InOrder(Tree, root, MaxKey + 1))

\* a remove took a node with two children out of a tree and left a root with
\* two children
C1_Witness ==
  /\ op = "remove" /\ ret # NoneV /\ root # Nil
  /\ left[root] # Nil /\ right[root] # Nil
  /\ Len(InOrder(Tree, root, MaxKey + 1)) >= 4

\* C2: after every public operation on any variant, every node recorded as
\* the left or right child of a node p has its parent link equal to p, and
\* the root's parent link is empty.
C2_ParentLinksConsistent ==
  /\ root # Nil => paren[root] = Nil
  /\ \A p \in Nodes(Tree) : \A c \in Children(Tree, p) : paren[c] = p

\* a treap after a remove that split and joined, or after bulk_load, with a
\* root that has a child
C2_Witness ==
  /\ variant = "treap"
  /\ (op = "remove" /\ ret # NoneV) \/ op = "bulk_load"
  /\ root # Nil /\ Children(Tree, root) # {}
  /\ \E c \in Children(Tree, root) : Children(Tree, c) # {}

\* C3: after every insert and remove on an AVL tree, the heights of the left
\* and the right subtree of every node, counted on the links, differ by at
\* most 1.
C3_AVLBalanced ==
  variant = "avl" =>
    \A x \in Nodes(Tree) :
      abs(ActualHeight(Tree, right[x]) - ActualHeight(Tree, left[x])) <= 1

\* an AVL tree of height 2 or more after a remove that took a node out
C3_Witness ==
  /\ variant = "avl" /\ op = "remove" /\ ret # NoneV
  /\ ActualHeight(Tree, root) >= 2
  /\ ActualHeight(Tree, left[root]) # ActualHeight(Tree, right[root])

\* C4: after every insert and remove on an AVL tree, the height stored in
\* every node is 1 + the larger of its children's stored heights (-1 for an
\* empty child) and is the node's actual height.
C4_AVLStoredHeights ==
  variant = "avl" =>
    \A x \in Nodes(Tree) :
      /\ height[x] = 1 + max(left_height(Tree, x), right_height(Tree, x))
      /\ height[x] = ActualHeight(Tree, x)

\* an AVL tree of 5 or more nodes after an insert or a remove, its root of
\* stored height 2
C4_Witness ==
  /\ variant = "avl" /\ op \in {"insert", "remove"}
  /\ Size(Tree) >= 5 /\ height[root] = 2

\* C5: after every insert and remove on a red-black tree, the root of a
\* non-empty tree is Black.
C5_RBRootBlack ==
  (variant = "rb" /\ root # Nil) => color[root] = BLACK

\* a red-black tree whose root has a Red child, after an insert or a remove
C5_Witness ==
  /\ variant = "rb" /\ op \in {"insert", "remove"} /\ root # Nil
  /\ \E c \in Children(Tree, root) : color[c] = RED

\* C6: after every insert and remove on a red-black tree, no Red node has a
\* Red child.
C6_RBNoRedRed ==
  variant = "rb" =>
    \A p \in Nodes(Tree) :
      color[p] = RED => \A c \in Children(Tree, p) : color[c] = BLACK

\* a red-black tree with a Red node that has two Black children
C6_Witness ==
  /\ variant = "rb" /\ op \in {"insert", "remove"}
  /\ \E p \in Nodes(Tree) :
       /\ color[p] = RED
       /\ left[p] # Nil /\ right[p] # Nil

\* C7: after every insert and remove on a red-black tree, every path from the
\* root to an empty child link passes through the same number of Black nodes.
C7_RBEqualBlackHeight ==
  variant = "rb" => Cardinality(BlackCounts(Tree, root, MaxKey + 1)) = 1

\* a red-black tree of black-height 2 with a Red node, after a remove that
\* took a node out
C7_Witness ==
  /\ variant = "rb" /\ op = "remove" /\ ret # NoneV
  /\ BlackCounts(Tree, root, MaxKey + 1) = {2}
  /\ \E x \in Nodes(Tree) : color[x] = RED

\* C8: after every treap operation (insert, remove, push, pop, bulk_load),
\* the weight of every node is greater than or equal to the weight of each
\* of its children.
C8_TreapHeapProperty ==
  variant \in {"treap", "heap"} =>
    \A p \in Nodes(Tree) : \A c \in Children(Tree, p) : weight[p] >= weight[c]

\* a treap in which a node and its child carry the same weight, after a
\* remove or a pop that took a node out
C8_Witness ==
  /\ variant \in {"treap", "heap"} /\ op \in {"remove", "pop"} /\ ret # NoneV
  /\ \E p \in Nodes(Tree) : \E c \in Children(Tree, p) : weight[p] = weight[c]

\* C9: for every variant and every reachable tree, insert(k, v) of a key k
\* that is absent returns true, and an immediately following get(k) returns
\* v.  (Every reachable tree is the tree of a state that accepts a call.)
C9_InsertThenGet ==
  (variant \in DictVariants /\ Ready) =>
    \A k \in Keys, v \in Values, w \in Draws(variant) :
      ~HasKey(Tree, k) =>
        LET r == dict_insert(variant, Tree, k, v, w)
        IN /\ r.ret = Bool(TRUE)
           /\ dict_get(variant, r.t, k).ret = Some(v)

\* a tree of two keys or more, built by inserts and removes, takes an absent
\* key below its root and get finds it
C9_Witness ==
  /\ variant \in DictVariants /\ Ready /\ Size(Tree) >= 2
  /\ \E k \in Keys, v \in Values, w \in Draws(variant) :
       /\ ~HasKey(Tree, k)
       /\ LET r == dict_insert(variant, Tree, k, v, w)
          IN /\ r.ret = Bool(TRUE)
             /\ r.t.root # k
             /\ dict_get(variant, r.t, k).ret = Some(v)

\* C10: for every variant, insert of a key that is already present returns
\* false and changes nothing: not the value stored for the key, not another
\* pair, not a link or a balance field of the tree.
C10_InsertPresentIsNoOp ==
  (variant \in DictVariants /\ Ready) =>
    \A k \in Keys, v \in Values, w \in Draws(variant) :
      HasKey(Tree, k) =>
        LET r == dict_insert(variant, Tree, k, v, w)
        IN r.ret = Bool(FALSE) /\ r.t = Tree

\* a splay tree takes an insert of a key it holds below its root, with a
\* value other than the stored one
C10_Witness ==
  /\ variant = "splay" /\ Ready
  /\ \E k \in Keys, v \in Values :
       /\ HasKey(Tree, k) /\ root # k /\ value[k] # v
       /\ splay_insert(Tree, k, v).ret = Bool(FALSE)

\* the (key, value) pairs a tree holds
Pairs(t) == {<<t.key[a], t.value[a]>> : a \in Nodes(t)}

\* the value stored under a key the tree holds
ValueAt(t, k) == t.value[CHOOSE a \in Nodes(t) : t.key[a] = k]

\* C11: for every variant, modify(k, v) of a key that is present returns
\* true, a following get(k) returns v, and every other key keeps its value.
C11_ModifyPresent ==
  (variant \in DictVariants /\ Ready) =>
    \A k \in Keys, v \in Values :
      HasKey(Tree, k) =>
        LET r == dict_modify(variant, Tree, k, v)
        IN /\ r.ret = Bool(TRUE)
           /\ dict_get(variant, r.t, k).ret = Some(v)
           /\ Pairs(r.t) = (Pairs(Tree) \ {<<k, ValueAt(Tree, k)>>})
                             \cup {<<k, v>>}

\* a tree of three keys or more takes a modify of a key below its root, with
\* a value other than the stored one
C11_Witness ==
  /\ variant \in DictVariants /\ Ready /\ Size(Tree) >= 3
  /\ \E k \in Keys, v \in Values :
       /\ HasKey(Tree, k) /\ key[root] # k /\ ValueAt(Tree, k) # v
       /\ dict_modify(variant, Tree, k, v).ret = Bool(TRUE)

\* C12: for every variant, the splay tree included, modify(k, v) on a
\* non-empty tree that does not hold k returns false and leaves every stored
\* value unchanged.
C12_ModifyAbsent ==
  (variant \in DictVariants /\ Ready /\ root # Nil) =>
    \A k \in Keys, v \in Values :
      ~HasKey(Tree, k) =>
        LET r == dict_modify(variant, Tree, k, v)
        IN r.ret = Bool(FALSE) /\ Pairs(r.t) = Pairs(Tree)

\* C13: for every variant, remove(k) of a key that is present returns the
\* value stored under k, afterwards get(k) and a second remove(k) return
\* absent, and every other key still maps to its own value.
C13_RemovePresent ==
  (variant \in DictVariants /\ Ready) =>
    \A k \in Keys :
      HasKey(Tree, k) =>
        LET r == dict_remove(variant, Tree, k)
        IN /\ r.ret = Some(ValueAt(Tree, k))
           /\ dict_get(variant, r.t, k).ret = NoneV
           /\ dict_remove(variant, r.t, k).ret = NoneV
           /\ Pairs(r.t) = Pairs(Tree) \ {<<k, ValueAt(Tree, k)>>}

\* a tree gives up a node that has two children, whose successor holds
\* another value
C13_Witness ==
  /\ variant \in DictVariants /\ Ready
  /\ \E k \in Keys :
       /\ HasKey(Tree, k)
       /\ \E a \in Nodes(Tree) :
            /\ key[a] = k /\ left[a] # Nil /\ right[a] # Nil
            /\ value[minimum(Tree, right[a])] # value[a]
       /\ dict_remove(variant, Tree, k).ret = Some(ValueAt(Tree, k))

\* the (key, value) pairs of the in-order walk
InOrderPairs(t) ==
  LET s == InOrder(t, t.root, MaxKey + 1)
  IN [i \in 1..Len(s) |-> <<s[i], ValueAt(t, s[i])>>]

\* the pairs of a set with distinct keys, by ascending key
RECURSIVE SortedByKey(_)
SortedByKey(ps) ==
  IF ps = {} THEN <<>>
  ELSE LET p == CHOOSE q \in ps : \A o \in ps : q[1] <= o[1]
       IN <<p>> \o SortedByKey(ps \ {p})

\* C14: whatever the order a batch of pairs with distinct keys is inserted in
\* and whatever the variant, the in-order sequence of the resulting tree is
\* the one sequence the set of pairs determines, its pairs by ascending key;
\* so it is the same for any two orders and any two variants.
C14_OrderAndVariantIndependent ==
  (~fault /\ Size(Tree) = Len(elems)) =>
    InOrderPairs(Tree)
      = SortedByKey({elems[i] : i \in 1..Len(elems)})

\* a batch of three pairs went in by descending keys
C14_Witness ==
  /\ ~fault /\ Len(elems) = 3 /\ Size(Tree) = 3
  /\ elems[1][1] > elems[2][1] /\ elems[2][1] > elems[3][1]
  /\ elems[1][2] # elems[3][2]

\* C15: in the splay tree the node of key k is the root after a get or
\* get_mut that finds k, after an insert of a new key k and after a modify of
\* a present key k.
C15_SplayAccessedIsRoot ==
  (variant = "splay" /\ Ready) =>
    \A k \in Keys, v \in Values :
      IF HasKey(Tree, k)
      THEN LET g == splay_get(Tree, k)
               m == splay_modify(Tree, k, v)
           IN /\ g.ret = Some(ValueAt(Tree, k))
              /\ g.t.root # Nil /\ g.t.key[g.t.root] = k
              /\ g.t.paren[g.t.root] = Nil
              /\ m.ret = Bool(TRUE)
              /\ m.t.root # Nil /\ m.t.key[m.t.root] = k
              /\ m.t.paren[m.t.root] = Nil
      ELSE LET i == splay_insert(Tree, k, v)
           IN /\ i.ret = Bool(TRUE)
              /\ i.t.root # Nil /\ i.t.key[i.t.root] = k
              /\ i.t.paren[i.t.root] = Nil

\* a get found a key two links or more below the root of a splay tree, and
\* an insert hooks a new key that deep
C15_Witness ==
  /\ variant = "splay" /\ Ready /\ root # Nil
  /\ \E a \in Nodes(Tree) :
       /\ paren[a] # Nil /\ paren[paren[a]] # Nil
       /\ splay_get(Tree, key[a]).t.root = a
       /\ \E k \in Keys :
            /\ ~HasKey(Tree, k)
            /\ search_approximately(Tree, k) = a
            /\ splay_insert(Tree, k, 1).t.root = k

\* the heap property in the subtree of x
HeapOrdered(t, x) ==
  \A p \in Subtree(t, x) : \A c \in Children(t, p) : t.weight[p] >= t.weight[c]

\* C16: split(t, k) of a treap returns (L, R) with L exactly the nodes of t
\* whose key is at most k and R exactly those whose key is greater; no node
\* is lost or doubled, and L and R are each in search order and heap order.
C16_SplitPartitions ==
  (variant \in {"treap", "heap"} /\ Ready) =>
    \A k \in Keys :
      LET s == split(Tree, root, k)
          L == Subtree(s.t, s.l)
          R == Subtree(s.t, s.r)
          inL == InOrder(s.t, s.l, MaxKey + 1)
          inR == InOrder(s.t, s.r, MaxKey + 1)
      IN /\ L = {a \in Nodes(Tree) : key[a] <= k}
         /\ R = {a \in Nodes(Tree) : key[a] > k}
         /\ s.t.key = key /\ s.t.value = value /\ s.t.weight = weight
         /\ Len(inL) = Cardinality(L) /\ Len(inR) = Cardinality(R)
         /\ StrictlyIncreasing(inL) /\ StrictlyIncreasing(inR)
         /\ HeapOrdered(s.t, s.l) /\ HeapOrdered(s.t, s.r)

\* a treap of three nodes is split at a key it holds, below its root, and
\* both parts get nodes
C16_Witness ==
  /\ variant \in {"treap", "heap"} /\ Ready /\ Size(Tree) = 3
  /\ \E k \in Keys :
       /\ HasKey(Tree, k) /\ key[root] # k
       /\ LET s == split(Tree, root, k)
          IN s.l # Nil /\ s.r # Nil /\ s.t # Tree

\* the weights of the nodes are pairwise distinct
DistinctWeights(t) ==
  \A a, b \in Nodes(t) : a # b => t.weight[a] # t.weight[b]

\* C17: joining the two results of split(t, k) gives a treap with the keys,
\* values and weights of t, and with the shape of t when the weights of t
\* are pairwise distinct.
C17_JoinOfSplit ==
  (variant \in {"treap", "heap"} /\ Ready) =>
    \A k \in Keys :
      LET s == split(Tree, root, k)
          j == join(s.t, s.l, s.r)
      IN /\ Subtree(j.t, j.n) = Nodes(Tree)
         /\ j.t.key = key /\ j.t.value = value /\ j.t.weight = weight
         /\ InOrder(j.t, j.n, MaxKey + 1) = InOrder(Tree, root, MaxKey + 1)
         /\ HeapOrdered(j.t, j.n)
         /\ DistinctWeights(Tree) =>
              j.n = root /\ j.t.left = left /\ j.t.right = right

\* a treap of three nodes with pairwise distinct weights is split into two
\* non-empty parts, which takes links apart, and joined again
C17_Witness ==
  /\ variant \in {"treap", "heap"} /\ Ready /\ Size(Tree) = 3
  /\ DistinctWeights(Tree)
  /\ \E k \in Keys :
       LET s == split(Tree, root, k)
       IN /\ s.l # Nil /\ s.r # Nil
          /\ s.t.left # left \/ s.t.right # right
          /\ join(s.t, s.l, s.r).n = root

\* C18: Treap::bulk_load of any sequence of (key, value, weight) triples with
\* strictly increasing keys, the empty one included, returns a tree whose
\* in-order walk is the key sequence of the input and which is heap ordered
\* and parent consistent, and self_validate accepts it.
C18_BulkLoadValid ==
  (variant = "treap" /\ op = "new" /\ ~fault) =>
    \A seq \in SortedSeqs(1, MaxTreap) :
      LET t == bulk_load(seq)
      IN /\ ~t.fault
         /\ InOrder(t, t.root, MaxKey + 1) = [i \in 1..Len(seq) |-> seq[i][1]]
         /\ Pairs(t) = {<<seq[i][1], seq[i][2]>> : i \in 1..Len(seq)}
         /\ \A i \in 1..Len(seq) : t.weight[seq[i][1]] = seq[i][3]
         /\ HeapOrdered(t, t.root)
         /\ t.root # Nil => t.paren[t.root] = Nil
         /\ \A p \in Nodes(t) : \A c \in Children(t, p) : t.paren[c] = p
         /\ treap_self_validate(t)

\* bulk_load built a treap of three nodes in which the last node took a node
\* of the right spine as its left child and hangs below the root
C18_Witness ==
  /\ variant = "treap" /\ op = "bulk_load" /\ ~fault /\ Size(Tree) = 3
  /\ \E a \in Nodes(Tree) :
       /\ paren[a] = root /\ right[root] = a /\ left[a] # Nil
       /\ weight[root] > weight[a] /\ weight[a] >= weight[left[a]]
  /\ treap_self_validate(Tree)

\* how many entries of the heap carry weight w
WeightCount(t, w) == Cardinality({a \in Nodes(t) : t.weight[a] = w})

\* the greatest weight stored in a non-empty heap
MaxWeightOf(t) ==
  CHOOSE w \in HeapWeights :
    /\ WeightCount(t, w) > 0
    /\ \A a \in Nodes(t) : t.weight[a] <= w

\* the weights popped until the heap is empty
RECURSIVE Drain(_)
Drain(t) ==
  IF t.root = Nil THEN <<>>
  ELSE LET p == heap_pop(t) IN <<p.ret[2]>> \o Drain(p.t)

\* C19: on the treap used as a max-heap with distinct keys, pop on a
\* non-empty heap returns the greatest weight stored and removes exactly one
\* entry carrying it, and top returns that weight and changes nothing; a push
\* of a new key adds one entry of its weight.  So the stored weights are the
\* bag of a reference max-heap under any interleaving of pushes and pops, and
\* popping all entries yields the stored weights in non-increasing order.
C19_HeapPopsGreatest ==
  (variant = "heap" /\ Ready) =>
    /\ \A k \in Keys, w \in HeapWeights :
         ~HasKey(Tree, k) =>
           LET t == heap_push(Tree, k, w).t
           IN \A u \in HeapWeights :
                WeightCount(t, u) = WeightCount(Tree, u) + (IF u = w THEN 1 ELSE 0)
    /\ root # Nil =>
         LET m == MaxWeightOf(Tree)
             p == heap_pop(Tree)
             d == Drain(Tree)
         IN /\ heap_top(Tree) = Some(m)
            /\ p.ret = Some(m)
            /\ \E a \in Nodes(Tree) :
                 /\ weight[a] = m
                 /\ Nodes(p.t) = Nodes(Tree) \ {a}
                 /\ \A b \in Nodes(p.t) :
                      p.t.key[b] = key[b] /\ p.t.weight[b] = weight[b]
            /\ \A u \in HeapWeights :
                 WeightCount(p.t, u)
                   = WeightCount(Tree, u) - (IF u = m THEN 1 ELSE 0)
            /\ Len(d) = Size(Tree)
            /\ \A i \in 1..(Len(d) - 1) : d[i] >= d[i + 1]
            /\ \A u \in HeapWeights :
                 Cardinality({i \in 1..Len(d) : d[i] = u}) = WeightCount(Tree, u)

\* a heap of three entries, two of them with the greatest weight and one
\* lighter, gives up one of the two on a pop
C19_Witness ==
  /\ variant = "heap" /\ Ready /\ Size(Tree) = 3
  /\ WeightCount(Tree, MaxWeightOf(Tree)) = 2
  /\ heap_pop(Tree).ret = Some(MaxWeightOf(Tree))
  /\ Size(heap_pop(Tree).t) = 2

\* C20: on an empty tree of any variant get, get_mut and remove return
\* absent, modify returns false, self_validate returns ok, and the tree is
\* still empty afterwards; removing the only node of a one-node tree leaves
\* the tree empty with no root.
C20_EmptyTree ==
  (variant \in DictVariants /\ Ready) =>
    /\ root = Nil =>
         /\ dict_self_validate(variant, Tree)
         /\ \A k \in Keys, v \in Values :
              LET g == dict_get(variant, Tree, k)
                  r == dict_remove(variant, Tree, k)
                  m == dict_modify(variant, Tree, k, v)
              IN /\ g.ret = NoneV /\ g.t.root = Nil /\ Size(g.t) = 0
                 /\ r.ret = NoneV /\ r.t.root = Nil /\ Size(r.t) = 0
                 /\ m.ret = Bool(FALSE) /\ m.t.root = Nil /\ Size(m.t) = 0
                 /\ ~g.t.fault /\ ~r.t.fault /\ ~m.t.fault
    /\ (root # Nil /\ Size(Tree) = 1) =>
         LET r == dict_remove(variant, Tree, key[root])
         IN /\ r.ret = Some(value[root])
            /\ r.t.root = Nil /\ Size(r.t) = 0 /\ ~r.t.fault
            /\ dict_self_validate(variant, r.t)

\* a tree that removes have emptied takes the calls, and so does a new one
C20_Witness ==
  /\ variant \in DictVariants /\ op = "idle" /\ ~fault
  /\ root = Nil /\ Size(Tree) = 0
  /\ dict_remove(variant, Tree, 1).ret = NoneV
  /\ dict_modify(variant, Tree, 1, 1).ret = Bool(FALSE)
  /\ dict_get(variant, Tree, 1).ret = NoneV

\* C21: no sequence of public operations from an empty tree makes the AVL
\* retrace, the red-black insert or delete fix-up or the splay loop call
\* rotate or double_rotate where the child or grandchild to be lifted is
\* empty: no call on an AVL, red-black or splay tree ends in a contract
\* violation.
C21_RotationPrecondition ==
  (variant \in {"avl", "rb", "splay"}
     /\ op \in {"insert", "remove", "modify", "get", "get_mut"}) => ~fault

\* a red-black tree whose delete fix-up takes a double rotation, and which
\* took a rotation to get there
C21_Witness ==
  /\ variant = "rb" /\ Ready /\ root # Nil
  /\ \E k \in Keys :
       /\ HasKey(Tree, k)
       /\ LET r == rb_remove(Tree, k)
          IN r.t.drots = 1 /\ r.t.rots = 2 /\ ~r.t.fault

\* every invariant of the variant holds of the tree
Valid(vt, t) ==
  /\ StrictlyIncreasing(InOrder(t, t.root, MaxKey + 1))
  /\ t.root # Nil => t.paren[t.root] = Nil
  /\ \A p \in Nodes(t) : \A c \in Children(t, p) : t.paren[c] = p
  /\ vt = "avl" =>
       \A x \in Nodes(t) :
         abs(ActualHeight(t, t.right[x]) - ActualHeight(t, t.left[x])) <= 1
  /\ vt = "rb" =>
       /\ \A p \in Nodes(t) : \A c \in Children(t, p) :
            ~(t.color[p] = RED /\ t.color[c] = RED)
       /\ Cardinality(BlackCounts(t, t.root, MaxKey + 1)) = 1
  /\ vt = "treap" => HeapOrdered(t, t.root)

\* C22: for every variant, self_validate returns ok only on trees that
\* satisfy all of the variant's invariants: search order at every depth,
\* consistent parent links, every AVL node balanced, no red-red edge and
\* equal black-heights in a red-black tree, no treap node lighter than a
\* child.
C22_ValidatorComplete ==
  (op = "self_validate" /\ ~fault) => Valid(variant, Tree)

\* C23: on the treap heap surface len() returns the number of entries
\* stored (keys pushed and not yet popped), and is_empty() is true exactly
\* when that number is 0.
C23_LenCountsEntries ==
  (variant = "heap" /\ Ready) =>
    LET l == heap_len(Tree)
        e == treap_is_empty(Tree)
        c == coll_is_empty(Tree)
    IN /\ ~l.t.fault /\ l.ret = Some(Size(Tree))
       /\ ~e.t.fault /\ e.ret = Bool(Size(Tree) = 0)
       /\ ~c.t.fault /\ c.ret = Bool(Size(Tree) = 0)

\* the least number of nodes of an AVL tree of height h
RECURSIVE MinAVLNodes(_)
MinAVLNodes(h) ==
  IF h < 0 THEN 0
  ELSE IF h = 0 THEN 1
  ELSE IF h = 1 THEN 2
  ELSE MinAVLNodes(h - 1) + MinAVLNodes(h - 2) + 1

\* C24: after n >= 1 inserts of keys in strictly increasing order into an
\* empty tree, with h the height of the tree (single node 0), the AVL tree
\* has n >= N(h), N(0) = 1, N(1) = 2, N(h) = N(h-1) + N(h-2) + 1, the
\* red-black tree has n >= 2^ceil((h+1)/2) - 1, and the raw tree has
\* h = n - 1.
C24_RisingInsertHeights ==
  (root # Nil /\ ~fault) =>
    LET n == Size(Tree)
        h == calc_height(Tree, root)
    IN /\ variant = "avl" => n >= MinAVLNodes(h)
       /\ variant = "rb" => n >= 2 ^ ((h + 2) \div 2) - 1
       /\ variant = "raw" => h = n - 1

\* MaxKey keys went in in rising order: an AVL tree of height 2
C24_Witness ==
  /\ variant = "avl" /\ ~fault /\ op = "insert" /\ root # Nil
  /\ Size(Tree) = MaxKey /\ calc_height(Tree, root) = 2
  /\ \A a \in Addr : key[a] = a

\* the retrace with the early exit: the steps of AVL::remove_retracing, and
\* the walk ends at the first visited position whose height after the step
\* is before[x], the height the subtree at the position of x had before the
\* operation
RECURSIVE EarlyRetrace(_, _, _)
EarlyRetrace(t, p, before) ==
  IF p = Nil \/ t.fault THEN t
  ELSE LET t1 == [t EXCEPT !.height[p] =
                      1 + max(left_height(t, p), right_height(t, p)),
                      !.steps = @ + 1]
       IN IF abs(bf(t1, p)) > 1
          THEN LET x == p
                   direction == IF right_height(t1, x) > left_height(t1, x)
                                THEN "L" ELSE "R"
                   heavy == child_bst(t1, x, reverse(direction))
               IN IF heavy = Nil THEN Fault(t1)
                  ELSE LET single ==
                             child_height(t1, heavy, reverse(direction))
                               >= child_height(t1, heavy, direction)
                           t2 == IF single THEN rotate("avl", t1, x, direction)
                                 ELSE double_rotate("avl", t1, x, direction)
                           newp == IF single THEN heavy
                                   ELSE child_bst(t1, heavy, direction)
                       IN IF t2.fault \/ t2.height[newp] = before[x] THEN t2
                          ELSE EarlyRetrace(t2, t2.paren[newp], before)
          ELSE IF t1.height[p] = before[p] THEN t1
               ELSE EarlyRetrace(t1, t1.paren[p], before)

\* AVL::insert with the early exit; the position of the new node was empty
EarlyInsert(t, k, v) ==
  LET r == basic_insert(t, k, v, 0)
  IN IF ~r.ret THEN r.t
     ELSE EarlyRetrace(r.t, k, [t.height EXCEPT ![k] = -1])

\* the node that takes the position of z when z has two children
MovedSuccessor(t, z) ==
  IF t.left[z] = Nil \/ t.right[z] = Nil THEN Nil ELSE successor_bst(t, z)

\* AVL::remove of a key of the tree with the early exit; the successor that
\* takes the position of z is compared with the height of z
EarlyRemove(t, k) ==
  LET z == search_approximately(t, k)
      y == MovedSuccessor(t, z)
      before == IF y = Nil THEN t.height
                ELSE [t.height EXCEPT ![y] = t.height[z]]
  IN NodeFree(EarlyRetrace(unlink(t, z), avl_retracing_entry(t, z), before), z)

SameShape(a, b) ==
  /\ a.fault = b.fault /\ a.root = b.root /\ a.left = b.left
  /\ a.right = b.right /\ a.paren = b.paren /\ a.key = b.key
  /\ a.value = b.value

\* the successor is moved up from below the right child of z
DeepSuccessor(t, z) ==
  MovedSuccessor(t, z) # Nil /\ t.paren[MovedSuccessor(t, z)] # z

\* C25 as stated: for every AVL insert and remove, the retrace that stops at
\* the first visited position whose height after the repair step is the
\* height of that position before the operation leaves the same tree, shape
\* and stored heights, as the retrace that walks up to the root.
C25_EarlyExitSameTree ==
  (variant = "avl" /\ Ready) =>
    /\ \A k \in Keys :
         ~HasKey(Tree, k) =>
           LET full == avl_insert(Tree, k, 1).t
               early == EarlyInsert(Tree, k, 1)
           IN SameShape(early, full) /\ early.height = full.height
    /\ \A k \in Keys :
         HasKey(Tree, k) =>
           LET full == avl_remove(Tree, k).t
               early == EarlyRemove(Tree, k)
           IN SameShape(early, full) /\ early.height = full.height

\* C25, amended: the early exit leaves the same shape for every insert and
\* remove; the stored heights are the same for every insert and for every
\* remove whose node has at most one child or its successor as right child;
\* when the successor is moved up from deeper, the stored heights are the
\* same except, possibly, the stale one of the moved successor.
C25_EarlyExitAmended ==
  (variant = "avl" /\ Ready) =>
    /\ \A k \in Keys :
         ~HasKey(Tree, k) =>
           LET full == avl_insert(Tree, k, 1).t
               early == EarlyInsert(Tree, k, 1)
           IN SameShape(early, full) /\ early.height = full.height
    /\ \A k \in Keys :
         HasKey(Tree, k) =>
           LET full == avl_remove(Tree, k).t
               early == EarlyRemove(Tree, k)
               y == MovedSuccessor(Tree, k)
           IN /\ SameShape(early, full)
              /\ ~DeepSuccessor(Tree, k) => early.height = full.height
              /\ \A a \in Addr \ {y} : early.height[a] = full.height[a]

\* a remove moves the successor up from below the right child, the early
\* exit ends the walk below it, and only its stored height is left stale
C25_Witness ==
  /\ variant = "avl" /\ Ready
  /\ \E k \in Keys :
       /\ HasKey(Tree, k) /\ DeepSuccessor(Tree, k)
       /\ LET full == avl_remove(Tree, k).t
              early == EarlyRemove(Tree, k)
              y == MovedSuccessor(Tree, k)
          IN /\ early.steps < full.steps
             /\ early.height[y] # full.height[y]
             /\ SameShape(early, full)

SameTreap(a, b) ==
  /\ a.fault = b.fault /\ a.root = b.root /\ a.left = b.left
  /\ a.right = b.right /\ a.paren = b.paren /\ a.key = b.key
  /\ a.value = b.value /\ a.weight = b.weight

\* C26: for triples with pairwise distinct keys and pairwise distinct
\* weights the shape of the treap is determined by the set alone: the tree
\* that insert_ builds from the triples one by one, in whatever order, is
\* the tree that bulk_load builds from the same triples by ascending key.
C26_TreapShapeUnique ==
  ~fault =>
    LET done == {elems[i] : i \in 1..Size(Tree)}
    IN SameTreap(Tree, bulk_load(SortedByKey(done)))

\* a whole batch is in, the keys did not come in ascending order, and the
\* triple inserted first is no longer at the root
C26_Witness ==
  /\ ~fault /\ op = "insert_"
  /\ Len(elems) = MaxElems /\ Size(Tree) = MaxElems
  /\ elems[1][1] > elems[2][1]
  /\ root # elems[1][1]
  /\ left[root] # Nil /\ right[root] # Nil

\* the number of parent links from n up to the root
RECURSIVE DepthUpTo(_, _, _)
DepthUpTo(t, n, fuel) ==
  IF n = Nil \/ t.paren[n] = Nil \/ fuel = 0 THEN 0
  ELSE 1 + DepthUpTo(t, t.paren[n], fuel - 1)

Depth(t, n) == DepthUpTo(t, n, MaxKey)

\* C27: every operation ends after finitely many steps on every reachable
\* tree.  The AVL retrace visits at most one position per level; the
\* red-black insert fix-up is entered at most once per level and the delete
\* fix-up at most twice (the re-entry at the same node after the red-sibling
\* rotation, and the step to the parent); the splay loop rotates exactly as
\* often as the splayed node is deep; the treap's find, split and join
\* return, split after at most one call per level and join after at most
\* one call per node.
C27_OperationsTerminate ==
  Ready =>
    LET h == ActualHeight(Tree, root)
        n == Size(Tree)
    IN \A k \in Keys :
         /\ variant = "avl" =>
              LET i == avl_insert(Tree, k, 1).t
                  r == avl_remove(Tree, k).t
              IN /\ ~i.fault /\ i.steps <= h + 2
                 /\ ~r.fault /\ r.steps <= h + 1
         /\ variant = "rb" =>
              LET i == rb_insert(Tree, k, 1).t
                  r == rb_remove(Tree, k).t
              IN /\ ~i.fault /\ i.steps <= (h + 2) \div 2 + 1
                 /\ ~r.fault /\ r.steps <= 2 * (h + 1)
         /\ variant = "splay" =>
              LET x == search_approximately(Tree, k)
                  i == splay_insert(Tree, k, 1).t
                  r == splay_remove(Tree, k).t
                  m == splay_modify(Tree, k, 1).t
                  g == splay_get(Tree, k).t
                  d == Depth(Tree, x)
              IN /\ ~i.fault /\ ~r.fault /\ ~m.fault /\ ~g.fault
                 /\ i.rots = (IF HasKey(Tree, k) THEN 0
                              ELSE IF x = Nil THEN 0 ELSE d + 1)
                 /\ r.rots = (IF HasKey(Tree, k) THEN d ELSE 0)
                 /\ g.rots = (IF HasKey(Tree, k) THEN d ELSE 0)
                 /\ m.rots = d
                 /\ i.drots = 0 /\ r.drots = 0 /\ g.drots = 0 /\ m.drots = 0
         /\ variant \in {"treap", "heap"} =>
              LET f == find(Tree, root, k)
                  s == split(Tree, root, k)
                  j == join(s.t, s.l, s.r)
              IN /\ f \in Addr \cup {Nil}
                 /\ ~s.t.fault /\ s.t.steps <= h + 1
                 /\ ~j.t.fault /\ j.t.steps - s.t.steps <= n
                 /\ \A w \in HeapWeights :
                      LET i == insert_(Tree, k, 1, w).t
                          r == remove_(Tree, k).t
                      IN /\ ~i.fault /\ i.steps <= (h + 1) + 2 * (n + 1)
                         /\ ~r.fault /\ r.steps <= 2 * (h + 1) + n

\* a remove from a red-black tree takes out a Black node without children
\* whose sibling is Red: the fix-up rotates, is entered again at the same
\* node, and ends
C27_Witness ==
  /\ variant = "rb" /\ Ready
  /\ \E k \in Keys :
       /\ HasKey(Tree, k) /\ k # root
       /\ left[k] = Nil /\ right[k] = Nil
       /\ is_black(Tree, k) /\ is_red(Tree, sibling(Tree, k))
       /\ LET r == rb_remove(Tree, k).t
          IN ~r.fault /\ r.steps = 2 /\ r.rots >= 1

\* where the insert fix-up that starts at x in t meets a Red parent with a
\* Black or empty uncle: the tree at that entry and the node (Nil if the
\* fix-up ends without meeting the case)
RECURSIVE RotationSite(_, _)
RotationSite(t, x) ==
  LET p == t.paren[x]
  IN IF p = Nil \/ t.color[p] = BLACK \/ t.paren[p] = Nil
     THEN [t |-> t, x |-> Nil]
     ELSE LET g == t.paren[p]
              u == sibling(t, p)
          IN IF is_red(t, u)
             THEN RotationSite(set_red(set_black(set_black(t, p), u), g), g)
             ELSE [t |-> t, x |-> x]

\* the node the step puts in the place of g, and the node that becomes its
\* second Red child besides g
NewTop(t, x) == IF dir(t, t.paren[x]) = dir(t, x) THEN t.paren[x] ELSE x
NewSide(t, x) == IF dir(t, t.paren[x]) = dir(t, x) THEN x ELSE t.paren[x]

C29_InsertRotatesOnce ==
  (variant = "avl" /\ Ready) =>
    \A k \in Keys :
      ~HasKey(Tree, k) =>
        LET hooked == basic_insert(Tree, k, 1, 0).t
            i == avl_insert(Tree, k, 1).t
        IN /\ ~i.fault
           /\ i.rots - i.drots <= 1
           /\ i.steps = Depth(hooked, k) + 1

\* an insert rotates twice for one double rotation, two levels below the
\* root, and the walk goes on to the root
C29_Witness ==
  /\ variant = "avl" /\ Ready
  /\ \E k \in Keys :
       /\ ~HasKey(Tree, k)
       /\ LET i == avl_insert(Tree, k, 1).t
          IN /\ i.drots = 1 /\ i.rots = 2
             /\ i.steps >= 3
             /\ i.root = root

\* the node a remove of n0 unlinks: n0, or its successor when n0 has a right
\* child and the two exchange their pairs
Unlinked(t, n0) == IF t.right[n0] # Nil THEN minimum(t, t.right[n0]) ELSE n0

\* C30: in a reachable red-black tree a remove whose unlinked node is Red
\* and has no children rotates nothing and changes the colour of no node
\* that stays: the sibling that set_red is called on is empty or Red
\* already.
C30_RedLeafRemoveFrame ==
  (variant = "rb" /\ Ready) =>
    \A n0 \in Addr :
      LET u == Unlinked(Tree, n0)
      IN (key[n0] # 0 /\ color[u] = RED /\ left[u] = Nil /\ right[u] = Nil) =>
           LET r == rb_remove_retracing(Tree, n0)
               o == rb_remove(Tree, key[n0]).t
           IN /\ r.n = u /\ ~r.t.fault
              /\ r.t.rots = 0 /\ o.rots = 0
              /\ \A a \in Addr \ {u} : r.t.color[a] = color[a]
              /\ is_red(Tree, sibling(Tree, u)) \/ sibling(Tree, u) = Nil
              /\ \A a \in Addr \ {u} :
                   /\ r.t.paren[a] = paren[a]
                   /\ r.t.left[a] = (IF left[a] = u THEN Nil ELSE left[a])
                   /\ r.t.right[a] = (IF right[a] = u THEN Nil ELSE right[a])

\* a remove of a node with two children unlinks its successor, a Red node
\* without children whose sibling is Red as well
C30_Witness ==
  /\ variant = "rb" /\ Ready
  /\ \E n0 \in Addr :
       LET u == Unlinked(Tree, n0)
       IN /\ key[n0] # 0 /\ u # n0 /\ left[n0] # Nil
          /\ color[u] = RED /\ left[u] = Nil /\ right[u] = Nil
          /\ sibling(Tree, u) # Nil
          /\ rb_remove_retracing(Tree, n0).n = u

====
